---- MODULE Spec2Model ----
(***************************************************************************)
(* Model of the Monte-Carlo PAC simulator (src/src/simulations.py and      *)
(* src/src/stats.py).                                                      *)
(*                                                                         *)
(* Numbers.  The program computes in IEEE doubles.  The model computes the *)
(* sums, products and quotients exactly, in rationals <<num, den>> with    *)
(* den > 0 in lowest terms, and NaN == <<0, 0>> for the double that is not *)
(* a number.  The one step that leaves what 32-bit integers can hold, the  *)
(* power of the annualisation, is computed in fixed point with Scale       *)
(* units per 1, truncating after every product.                            *)
(*                                                                         *)
(* Durations.  n_years is a rational <<p, q>>.  The modelled durations are *)
(* unit fractions 1/m, for which the exponent 1/n_years is the integer m.  *)
(***************************************************************************)
EXTENDS Integers, Sequences, FiniteSets, TLC

VARIABLES
    data,                       \* the price table handed to the call
    years_grid,                 \* simulate_multiple_durations: the duration grid
    n_simulations,              \* trials per duration
    portfolio_composition,      \* [is_none, items]: None or the ordered weight map
    pc,                         \* position of the running call
    i,                          \* simulate_multiple_durations: loop index (0-based)
    n_years,                    \* duration of the running replication / single call
    extracted_starting_points,  \* simulate_multiple_investments: the drawn indices
    returns_list,               \* simulate_multiple_investments: returns so far
    summary_results,            \* simulate_multiple_durations: rows so far
    advisories,                 \* what the replicator printed, one entry per replication
    runs,                       \* history: the returns list of every completed replication
    result,                     \* simulate_multiple_durations: the array returned, or the exception
    call,                       \* the function the caller entered
    starting_point,             \* start index of a direct simulator call
    outcome,                    \* direct simulator call: what it returned or raised
    summary                     \* direct compute_summary_stats call: the tuple or the exception

vars == <<data, years_grid, n_simulations, portfolio_composition, pc, i, n_years,
          extracted_starting_points, returns_list, summary_results, advisories,
          runs, result, call, starting_point, outcome, summary>>

----------------------------------------------------------------------------
(* Bounds of the model *)

\* longest duration grid
MaxGrid == 2

\* largest number of trials per duration
MaxSims == 3

\* longest list handed directly to compute_summary_stats
MaxLen == 3

----------------------------------------------------------------------------
(* Program constants *)

TradingDaysPerYear == 252

trading_period_days == 21

MONTHLY_CONTRIBUTION == 100

RequiredWeightSum == 100

InflationThreshold == 2

\* fixed-point units per 1 in the power of the annualisation
Scale == 10 ^ 3

----------------------------------------------------------------------------
(* Double arithmetic, exact *)

NaN == <<0, 0>>

IsNaN(x) == x[2] = 0

Abs(n) == IF n < 0 THEN -n ELSE n

RECURSIVE GCD(_, _)
GCD(a, b) == IF b = 0 THEN a ELSE GCD(b, a % b)

\* the rational n/d, d # 0, in lowest terms with a positive denominator
Rat(n, d) ==
    LET g == GCD(Abs(n), Abs(d))
        s == IF d < 0 THEN -1 ELSE 1
    IN  <<(s * n) \div g, (s * d) \div g>>

Num(n) == <<n, 1>>

RatAdd(x, y) ==
    IF IsNaN(x) \/ IsNaN(y) THEN NaN
    ELSE Rat(x[1] * y[2] + y[1] * x[2], x[2] * y[2])

RatSub(x, y) ==
    IF IsNaN(x) \/ IsNaN(y) THEN NaN
    ELSE Rat(x[1] * y[2] - y[1] * x[2], x[2] * y[2])

RatMul(x, y) ==
    IF IsNaN(x) \/ IsNaN(y) THEN NaN
    ELSE Rat(x[1] * y[1], x[2] * y[2])

\* numpy double division: 0/0 is nan (a warning, no exception).  A non-zero
\* numerator over 0 does not occur: prices are positive.
RatDiv(x, y) ==
    IF IsNaN(x) \/ IsNaN(y) \/ y[1] = 0 THEN NaN
    ELSE Rat(x[1] * y[2], x[2] * y[1])

\* x > y on doubles: every comparison with nan is False
RatGreater(x, y) ==
    /\ ~IsNaN(x)
    /\ ~IsNaN(y)
    /\ x[1] * y[2] > y[1] * x[2]

RatLeq(x, y) ==
    /\ ~IsNaN(x)
    /\ ~IsNaN(y)
    /\ x[1] * y[2] <= y[1] * x[2]

\* x in fixed point, truncated toward zero
ToFixed(x) ==
    LET a == Abs(x[1])
        m == (a \div x[2]) * Scale + ((a % x[2]) * Scale) \div x[2]
    IN  IF x[1] < 0 THEN -m ELSE m

\* product of two fixed-point numbers, truncated toward zero
MulFixed(x, y) ==
    LET a == Abs(x)
        b == Abs(y)
        m == (a \div Scale) * (b \div Scale) * Scale
             + (a \div Scale) * (b % Scale)
             + (a % Scale) * (b \div Scale)
             + ((a % Scale) * (b % Scale)) \div Scale
    IN  IF (x < 0) # (y < 0) THEN -m ELSE m

\* base ** e for an integer exponent e >= 0, by squaring
RECURSIVE Pow(_, _)
Pow(base, e) ==
    IF e = 0 THEN Scale
    ELSE IF e % 2 = 0
         THEN LET h == Pow(base, e \div 2) IN MulFixed(h, h)
         ELSE MulFixed(Pow(base, e - 1), base)

----------------------------------------------------------------------------
(* The price table: data.columns, and one price per row and column *)

LenData(d) == Len(d.prices[d.columns[1]])

Columns(d) == {d.columns[c] : c \in 1..Len(d.columns)}

\* positional access: Python/pandas accept -len <= i < len, negative i
\* counting from the end; anything else raises IndexError
InBounds(d, row) == row < LenData(d) /\ row >= -LenData(d)

Price(d, row, ticker) ==
    LET r == IF row < 0 THEN row + LenData(d) ELSE row
    IN  Num(d.prices[ticker][r + 1])

----------------------------------------------------------------------------
(* The part the two simulators share *)

\* int(252 * n_years)
Horizon(years) == (TradingDaysPerYear * years[1]) \div years[2]

\* mutant: the final index is clamped to the last row
FinalPoint_Clamped(d, start, years) ==
    IF start + Horizon(years) >= LenData(d) THEN LenData(d) - 1
    ELSE start + Horizon(years)

\* final_point = starting_point + int(252 * n_years)
FinalPoint(d, start, years) == start + Horizon(years)

\* 1 / n_years, an integer for the unit fractions the model draws
Exponent(years) == years[2] \div years[1]

\* 100 * ((1 + net_return / 100) ** (1 / n_years) - 1); nan stays nan
Annualize(net_return, years) ==
    IF IsNaN(net_return) THEN NaN
    ELSE LET base == RatAdd(Num(1), RatDiv(net_return, Num(100)))
             p    == Pow(ToFixed(base), Exponent(years))
         IN  Rat(p - Scale, Scale \div 100)

\* mutant: the return is taken on the whole capital, not on its average
GrossReturn_OverCapital(value, capital, average_capital) ==
    RatMul(RatDiv(RatSub(value, capital), capital), Num(100))

\* gross_return = (value - capital) / average_capital * 100
GrossReturn(value, capital, average_capital) ==
    RatMul(RatDiv(RatSub(value, capital), average_capital), Num(100))

\* what a call that raised leaves behind
Raised(kind, reads, purchases) ==
    [raised |-> kind, value |-> NaN, reads |-> reads, purchases |-> purchases,
     capital |-> NaN, average_capital |-> NaN, final_value |-> NaN,
     gross_return |-> NaN, net_return |-> NaN]

----------------------------------------------------------------------------
(* simulate_single_investment *)

\* mutant: the tax is taken from losses too
NetReturnSingle_TaxedAlways(gross_return) ==
    RatMul(Rat(74, 100), gross_return)

\* if gross_return > 0: net_return = 0.74 * gross_return, else gross_return
NetReturnSingle(gross_return) ==
    IF RatGreater(gross_return, Num(0))
    THEN RatMul(Rat(74, 100), gross_return)
    ELSE gross_return

\* mutant: a purchase is made only when a whole period of 21 rows is left
RECURSIVE SingleLoop_FullPeriods(_, _, _, _)
SingleLoop_FullPeriods(d, st, row, final_point) ==
    IF row + 21 > final_point THEN st
    ELSE IF ~InBounds(d, row) THEN [st EXCEPT !.raised = "IndexError"]
    ELSE SingleLoop_FullPeriods(d,
            [st EXCEPT !.capital = @ + 100,
                       !.n_stocks = RatAdd(@, RatDiv(Num(100), Price(d, row, d.columns[1]))),
                       !.reads = Append(@, <<row, d.columns[1]>>),
                       !.purchases = Append(@, <<row, d.columns[1], Num(100)>>)],
            row + 21, final_point)

\* the loop  for i in np.arange(starting_point + 21, final_point, 21)
RECURSIVE SingleLoop(_, _, _, _)
SingleLoop(d, st, row, final_point) ==
    IF row >= final_point THEN st
    ELSE IF ~InBounds(d, row) THEN [st EXCEPT !.raised = "IndexError"]
    ELSE SingleLoop(d,
            [st EXCEPT !.capital = @ + 100,
                       !.n_stocks = RatAdd(@, RatDiv(Num(100), Price(d, row, d.columns[1]))),
                       !.reads = Append(@, <<row, d.columns[1]>>),
                       !.purchases = Append(@, <<row, d.columns[1], Num(100)>>)],
            row + 21, final_point)

simulate_single_investment(d, years, start) ==
    LET final_point == FinalPoint(d, start, years)
        col == d.columns[1]
    IN  IF ~InBounds(d, start) THEN Raised("IndexError", <<>>, <<>>)
        ELSE
        LET st0 == [capital |-> 100,
                    n_stocks |-> RatDiv(Num(100), Price(d, start, col)),
                    reads |-> <<<<start, col>>>>,
                    purchases |-> <<<<start, col, Num(100)>>>>,
                    raised |-> "None"]
            st == SingleLoop(d, st0, start + 21, final_point)
        IN  IF st.raised # "None" THEN Raised(st.raised, st.reads, st.purchases)
            ELSE IF ~InBounds(d, final_point)
            THEN Raised("IndexError", st.reads, st.purchases)
            ELSE
            LET final_price == Price(d, final_point, col)
                final_value == RatMul(st.n_stocks, final_price)
                average_capital == RatDiv(Num(st.capital), Num(2))
                gross_return == GrossReturn(final_value, Num(st.capital), average_capital)
                net_return == NetReturnSingle(gross_return)
            IN  [raised |-> "None",
                 value |-> Annualize(net_return, years),
                 reads |-> Append(st.reads, <<final_point, col>>),
                 purchases |-> st.purchases,
                 capital |-> Num(st.capital),
                 average_capital |-> average_capital,
                 final_value |-> final_value,
                 gross_return |-> gross_return,
                 net_return |-> net_return]

----------------------------------------------------------------------------
(* simulate_portfolio_returns *)

TAX_RATE == Rat(26, 100)

Ticker(item) == item[1]

Percentage(item) == item[2]

\* sum(portfolio_composition.values())
RECURSIVE SumValues(_)
SumValues(items) ==
    IF items = <<>> THEN 0 ELSE Percentage(Head(items)) + SumValues(Tail(items))

\* mutant: no key is checked ahead of the simulation
MissingTicker_Unchecked(d, items) == FALSE

\* the validation loop: some key is not in data.columns
MissingTicker(d, items) ==
    \E k \in 1..Len(items) : Ticker(items[k]) \notin Columns(d)

\* mutant: the keys are validated before the sum
ValidationError_KeysFirst(d, items) ==
    IF MissingTicker(d, items) THEN "KeyError"
    ELSE IF SumValues(items) # RequiredWeightSum THEN "ValueError"
    ELSE "None"

\* the two validations, in the order of the code: the sum, then the keys
ValidationError(d, items) ==
    IF SumValues(items) # RequiredWeightSum THEN "ValueError"
    ELSE IF MissingTicker(d, items) THEN "KeyError"
    ELSE "None"

\* mutant: the portfolio's gains are left untaxed
NetReturnPortfolio_Untaxed(gross_return) == gross_return

\* if gross_return > 0: net_return = (1 - TAX_RATE) * gross_return, else gross_return
NetReturnPortfolio(gross_return) ==
    IF RatGreater(gross_return, Num(0))
    THEN RatMul(RatSub(Num(1), TAX_RATE), gross_return)
    ELSE gross_return

\* mutant: every instrument receives the whole monthly contribution
Allocation_Unsplit(percentage) == Num(MONTHLY_CONTRIBUTION)

\* MONTHLY_CONTRIBUTION * (percentage / 100)
Allocation(percentage) ==
    RatMul(Num(MONTHLY_CONTRIBUTION), RatDiv(Num(percentage), Num(100)))

\* data.loc[data.index[row], ticker]: data.index[row] raises IndexError for a
\* row out of bounds, then .loc raises KeyError for a ticker that is no column
LookupError(d, row, ticker) ==
    IF ~InBounds(d, row) THEN "IndexError"
    ELSE IF ticker \notin Columns(d) THEN "KeyError"
    ELSE "None"

\* mutant: the average capital grows by the whole allocation of a purchase
RECURSIVE TickerLoop_WholeAllocation(_, _, _, _, _, _)
TickerLoop_WholeAllocation(d, st, ticker, allocation, row, final_point) ==
    IF row >= final_point THEN st
    ELSE IF LookupError(d, row, ticker) # "None"
    THEN [st EXCEPT !.raised = LookupError(d, row, ticker)]
    ELSE TickerLoop_WholeAllocation(d,
            [st EXCEPT !.capital = RatAdd(@, allocation),
                       !.n_stocks = RatAdd(@, RatDiv(allocation, Price(d, row, ticker))),
                       !.average_capital = RatAdd(@, allocation),
                       !.reads = Append(@, <<row, ticker>>),
                       !.purchases = Append(@, <<row, ticker, allocation>>)],
            ticker, allocation, row + trading_period_days, final_point)

\* the inner loop  for i in np.arange(starting_point, final_point, trading_period_days)
RECURSIVE TickerLoop(_, _, _, _, _, _)
TickerLoop(d, st, ticker, allocation, row, final_point) ==
    IF row >= final_point THEN st
    ELSE IF LookupError(d, row, ticker) # "None"
    THEN [st EXCEPT !.raised = LookupError(d, row, ticker)]
    ELSE TickerLoop(d,
            [st EXCEPT !.capital = RatAdd(@, allocation),
                       !.n_stocks = RatAdd(@, RatDiv(allocation, Price(d, row, ticker))),
                       !.average_capital = RatAdd(@, RatDiv(allocation, Num(2))),
                       !.reads = Append(@, <<row, ticker>>),
                       !.purchases = Append(@, <<row, ticker, allocation>>)],
            ticker, allocation, row + trading_period_days, final_point)

\* the outer loop  for ticker, percentage in portfolio_composition.items()
RECURSIVE PortfolioLoop(_, _, _, _, _)
PortfolioLoop(d, tot, items, start, final_point) ==
    IF items = <<>> \/ tot.raised # "None" THEN tot
    ELSE
    LET ticker == Ticker(Head(items))
        st0 == [capital |-> Num(0), n_stocks |-> Num(0),
                average_capital |-> tot.average_capital,
                reads |-> tot.reads, purchases |-> tot.purchases, raised |-> "None"]
        st == TickerLoop(d, st0, ticker, Allocation(Percentage(Head(items))),
                         start, final_point)
    IN  IF st.raised # "None"
        THEN [tot EXCEPT !.raised = st.raised, !.reads = st.reads,
                         !.purchases = st.purchases]
        ELSE IF LookupError(d, final_point, ticker) # "None"
        THEN [tot EXCEPT !.raised = LookupError(d, final_point, ticker),
                         !.reads = st.reads, !.purchases = st.purchases]
        ELSE PortfolioLoop(d,
                [total_capital |-> RatAdd(tot.total_capital, st.capital),
                 total_value |-> RatAdd(tot.total_value,
                                        RatMul(st.n_stocks, Price(d, final_point, ticker))),
                 average_capital |-> st.average_capital,
                 reads |-> Append(st.reads, <<final_point, ticker>>),
                 purchases |-> st.purchases,
                 raised |-> "None"],
                Tail(items), start, final_point)

simulate_portfolio_returns(d, years, start, items) ==
    IF ValidationError(d, items) # "None"
    THEN Raised(ValidationError(d, items), <<>>, <<>>)
    ELSE
    LET final_point == FinalPoint(d, start, years)
        tot0 == [total_capital |-> Num(0), total_value |-> Num(0),
                 average_capital |-> Num(0), reads |-> <<>>, purchases |-> <<>>,
                 raised |-> "None"]
        tot == PortfolioLoop(d, tot0, items, start, final_point)
    IN  IF tot.raised # "None" THEN Raised(tot.raised, tot.reads, tot.purchases)
        ELSE
        LET gross_return == GrossReturn(tot.total_value, tot.total_capital,
                                        tot.average_capital)
            net_return == NetReturnPortfolio(gross_return)
        IN  [raised |-> "None",
             value |-> Annualize(net_return, years),
             reads |-> tot.reads,
             purchases |-> tot.purchases,
             capital |-> tot.total_capital,
             average_capital |-> tot.average_capital,
             final_value |-> tot.total_value,
             gross_return |-> gross_return,
             net_return |-> net_return]

----------------------------------------------------------------------------
(* compute_summary_stats *)

HasNaN(l) == \E k \in 1..Len(l) : IsNaN(l[k])

RemoveAt(l, k) == SubSeq(l, 1, k - 1) \o SubSeq(l, k + 1, Len(l))

\* the list in ascending order (np.median sorts a copy)
RECURSIVE SortReturns(_)
SortReturns(l) ==
    IF l = <<>> THEN <<>>
    ELSE LET k == CHOOSE k \in 1..Len(l) : \A j \in 1..Len(l) : RatLeq(l[k], l[j])
         IN  <<l[k]>> \o SortReturns(RemoveAt(l, k))

\* np.min(returns_list); nan if any entry is nan
MinReturn(l) ==
    IF HasNaN(l) THEN NaN
    ELSE l[CHOOSE k \in 1..Len(l) : \A j \in 1..Len(l) : RatLeq(l[k], l[j])]

\* np.max(returns_list); nan if any entry is nan
MaxReturn(l) ==
    IF HasNaN(l) THEN NaN
    ELSE l[CHOOSE k \in 1..Len(l) : \A j \in 1..Len(l) : RatLeq(l[j], l[k])]

\* np.median(returns_list): the middle of the sorted list, the mean of the
\* two middle entries when the length is even; nan if any entry is nan
MedianReturn(l) ==
    IF HasNaN(l) THEN NaN
    ELSE LET srt == SortReturns(l)
             n == Len(l)
         IN  IF n % 2 = 1 THEN srt[(n + 1) \div 2]
             ELSE RatDiv(RatAdd(srt[n \div 2], srt[n \div 2 + 1]), Num(2))

\* mutant: the True entries are counted, the count is not divided
MeanOfMask_Sum(mask) ==
    Num(Cardinality({k \in 1..Len(mask) : mask[k]}))

\* np.mean(mask) of a boolean mask: the fraction of True entries
MeanOfMask(mask) ==
    Rat(Cardinality({k \in 1..Len(mask) : mask[k]}), Len(mask))

\* mutant: a return of exactly 0 counts as non-negative
ProbNonNegative_IncludingZero(l) ==
    MeanOfMask([k \in 1..Len(l) |-> RatLeq(Num(0), l[k])])

\* np.mean(np.array(returns_list) > 0)
ProbNonNegative(l) ==
    MeanOfMask([k \in 1..Len(l) |-> RatGreater(l[k], Num(0))])

\* np.mean(np.array(returns_list) > 2)
ProbGreaterThanInflation(l) ==
    MeanOfMask([k \in 1..Len(l) |-> RatGreater(l[k], Num(InflationThreshold))])

\* mutant: an empty list is summarised by a row of zeros
compute_summary_stats_Placeholder(l) ==
    [raised |-> "None",
     row |-> IF l = <<>> THEN <<Num(0), Num(0), Num(0), Num(0), Num(0)>>
             ELSE <<MinReturn(l), MaxReturn(l), MedianReturn(l),
                    ProbNonNegative(l), ProbGreaterThanInflation(l)>>]

\* np.min of an empty list raises ValueError (a reduction with no identity)
compute_summary_stats(l) ==
    IF l = <<>> THEN [raised |-> "ValueError", row |-> <<>>]
    ELSE [raised |-> "None",
          row |-> <<MinReturn(l), MaxReturn(l), MedianReturn(l),
                    ProbNonNegative(l), ProbGreaterThanInflation(l)>>]

----------------------------------------------------------------------------
(* simulate_multiple_investments *)

\* the advisory: n_simulations > len(data) / 2; it suggests int(len(data) / 2)
Advisory(d, n) ==
    IF 2 * n > LenData(d)
    THEN [printed |-> TRUE, suggested |-> LenData(d) \div 2]
    ELSE [printed |-> FALSE, suggested |-> 0]

\* mutant: the horizon is not taken off the range of the draw
MaxFinalPoint_WholeTable(d, years) == LenData(d)

\* max_final_point = len(data) - int(252 * n_years)
MaxFinalPoint(d, years) == LenData(d) - Horizon(years)

\* mutant: when the advisory is printed the draw is cut to the number it suggests
DrawSize_Suggested(d, n) ==
    IF Advisory(d, n).printed THEN Advisory(d, n).suggested ELSE n

\* size of the draw: n_simulations, whatever the advisory said
DrawSize(d, n) == n

\* np.random.choice(np.arange(0, max_final_point), size, replace=False):
\* every sequence of size distinct members of the population; none when
\* size exceeds the population (the call raises ValueError)
Draws(max_final_point, size) ==
    {pts \in [1..size -> 0..(max_final_point - 1)] :
        \A a, b \in 1..size : a # b => pts[a] # pts[b]}

\* one trial: the portfolio simulator when a composition is given
Trial(d, years, start, composition) ==
    IF composition.is_none
    THEN simulate_single_investment(d, years, start)
    ELSE simulate_portfolio_returns(d, years, start, composition.items)

----------------------------------------------------------------------------
(* simulate_multiple_durations *)

\* mutant: the row is put in front of the rows collected so far
AppendRow_Prepended(rows, row) == <<row>> \o rows

\* summary_results.append(row)
AppendRow(rows, row) == Append(rows, row)

\* np.array(summary_results): a list of n 5-tuples becomes an array of shape
\* (n, 5); the empty list becomes an array of shape (0,)
NpArray(rows) ==
    [shape |-> IF rows = <<>> THEN <<0>> ELSE <<Len(rows), Len(rows[1])>>,
     rows |-> rows]

NoResult == [raised |-> "None", where |-> "", array |-> NpArray(<<>>)]

RaisedIn(kind, where) == [raised |-> kind, where |-> where, array |-> NpArray(<<>>)]

----------------------------------------------------------------------------
(* The inputs the callers hand in *)

\* price paths: a crash-and-recovery cycle, a non-decreasing path, a flat one
PathPrice(path, row) ==
    CASE path = "cycle"  -> <<8, 2, 4, 5>>[(row % 4) + 1]
      [] path = "rising" -> IF row < 2 THEN 5 ELSE IF row < trading_period_days THEN 8 ELSE 10
      [] path = "flat"   -> 10
      [] path = "falling" -> IF row < 2 THEN 10 ELSE IF row = 2 THEN 8
                             ELSE IF row = 3 THEN 5 ELSE 4

\* a table of two columns, as the tests build it
Table(len, pathA, pathB) ==
    [columns |-> <<"AAPL", "MSFT">>,
     prices |-> [t \in {"AAPL", "MSFT"} |->
                    [r \in 1..len |-> PathPrice(IF t = "AAPL" THEN pathA ELSE pathB, r - 1)]]]

PathPairs == {<<"cycle", "rising">>, <<"rising", "flat">>, <<"flat", "cycle">>}

\* tables a little longer than the durations of the grid
ShortTables == {Table(len, pp[1], pp[2]) : len \in {23, 24}, pp \in PathPairs}

\* tables shorter than twice the number of trials, for durations of two days
TinyTables == {Table(5, pp[1], pp[2]) : pp \in {<<"flat", "falling">>, <<"falling", "flat">>}}

\* tables for the direct calls, one long enough for two full periods
Tables == {Table(len, pp[1], pp[2]) : len \in {24, 44}, pp \in PathPairs}

\* durations of the grid: 1/12 year (21 days) and 1/11 year (22 days)
GridYears == {<<1, 12>>, <<1, 11>>}

\* durations for the tiny tables: 1/126 year (2 days)
TinyYears == {<<1, 126>>}

\* durations of the direct calls: also 1/253 year (0 days) and 1/6 year (42 days)
Years == GridYears \cup {<<1, 253>>, <<1, 6>>}

SeqsUpTo(S, n) == UNION {[1..k -> S] : k \in 0..n}

Grids == SeqsUpTo(GridYears, MaxGrid)

TinyGrids == SeqsUpTo(TinyYears, MaxGrid)

None == [is_none |-> TRUE, items |-> <<>>]

Composition(items) == [is_none |-> FALSE, items |-> items]

\* weight maps, in insertion order: valid ones, sums of 80, 99 and 101, a
\* ticker that is no column, both faults at once, and the empty map
WeightMaps ==
    { <<<<"AAPL", 60>>, <<"MSFT", 40>>>>,
      <<<<"AAPL", 100>>>>,
      <<<<"AAPL", 50>>, <<"MSFT", 30>>>>,
      <<<<"AAPL", 60>>, <<"MSFT", 39>>>>,
      <<<<"AAPL", 60>>, <<"MSFT", 41>>>>,
      <<<<"AAPL", 60>>, <<"GOOGL", 40>>>>,
      <<<<"GOOGL", 40>>, <<"AAPL", 60>>>>,
      <<<<"AAPL", 60>>, <<"GOOGL", 39>>>>,
      <<>> }

Compositions == {None} \cup {Composition(w) : w \in WeightMaps}

\* returns handed directly to compute_summary_stats, around both thresholds
ReturnValues == {Num(-1), Num(0), Num(1), Num(2), Rat(5, 2), Num(3)}

NoYears == <<0, 1>>

NoOutcome == Raised("None", <<>>, <<>>)

NoSummary == [raised |-> "None", row |-> <<>>]

----------------------------------------------------------------------------
(* The calls *)

Idle ==
    /\ i = 0
    /\ extracted_starting_points = <<>>
    /\ returns_list = <<>>
    /\ summary_results = <<>>
    /\ advisories = <<>>
    /\ runs = <<>>
    /\ result = NoResult
    /\ outcome = NoOutcome
    /\ summary = NoSummary

InitDurations ==
    /\ call = "simulate_multiple_durations"
    /\ pc = "loop"
    /\ \/ data \in ShortTables /\ years_grid \in Grids
       \/ data \in TinyTables /\ years_grid \in TinyGrids
    /\ n_simulations \in 0..MaxSims
    /\ portfolio_composition \in Compositions
    /\ n_years = NoYears
    /\ starting_point = 0
    /\ Idle

InitSingle ==
    /\ call = "simulate_single_investment"
    /\ pc = "called"
    /\ data \in Tables
    /\ n_years \in Years
    /\ starting_point \in -1..LenData(data)
    /\ portfolio_composition = None
    /\ years_grid = <<>>
    /\ n_simulations = 0
    /\ Idle

InitPortfolio ==
    /\ call = "simulate_portfolio_returns"
    /\ pc = "called"
    /\ data \in Tables
    /\ n_years \in Years
    /\ starting_point \in -1..LenData(data)
    /\ portfolio_composition \in Compositions \ {None}
    /\ years_grid = <<>>
    /\ n_simulations = 0
    /\ Idle

InitStats ==
    /\ call = "compute_summary_stats"
    /\ pc = "called"
    /\ data \in {Table(1, "flat", "flat")}
    /\ returns_list \in SeqsUpTo(ReturnValues, MaxLen)
    /\ n_years = NoYears
    /\ starting_point = 0
    /\ portfolio_composition = None
    /\ years_grid = <<>>
    /\ n_simulations = 0
    /\ i = 0
    /\ extracted_starting_points = <<>>
    /\ summary_results = <<>>
    /\ advisories = <<>>
    /\ runs = <<>>
    /\ result = NoResult
    /\ outcome = NoOutcome
    /\ summary = NoSummary

Init == InitDurations \/ InitSingle \/ InitPortfolio \/ InitStats

\* a direct call of simulate_single_investment
CallSingle ==
    /\ call = "simulate_single_investment"
    /\ pc = "called"
    /\ outcome' = simulate_single_investment(data, n_years, starting_point)
    /\ pc' = IF outcome'.raised = "None" THEN "returned" ELSE "raised"
    /\ UNCHANGED <<data, years_grid, n_simulations, portfolio_composition, i, n_years,
                   extracted_starting_points, returns_list, summary_results,
                   advisories, runs, result, call, starting_point, summary>>

\* a direct call of simulate_portfolio_returns
CallPortfolio ==
    /\ call = "simulate_portfolio_returns"
    /\ pc = "called"
    /\ outcome' = simulate_portfolio_returns(data, n_years, starting_point,
                                             portfolio_composition.items)
    /\ pc' = IF outcome'.raised = "None" THEN "returned" ELSE "raised"
    /\ UNCHANGED <<data, years_grid, n_simulations, portfolio_composition, i, n_years,
                   extracted_starting_points, returns_list, summary_results,
                   advisories, runs, result, call, starting_point, summary>>

\* a direct call of compute_summary_stats
CallStats ==
    /\ call = "compute_summary_stats"
    /\ pc = "called"
    /\ summary' = compute_summary_stats(returns_list)
    /\ pc' = IF summary'.raised = "None" THEN "returned" ELSE "raised"
    /\ UNCHANGED <<data, years_grid, n_simulations, portfolio_composition, i, n_years,
                   extracted_starting_points, returns_list, summary_results,
                   advisories, runs, result, call, starting_point, outcome>>

\* simulate_multiple_durations, loop head: the next duration's replication is
\* entered; it prints its advisory and draws its starting points
Replicate ==
    /\ call = "simulate_multiple_durations"
    /\ pc = "loop"
    /\ i < Len(years_grid)
    /\ \E pts \in Draws(MaxFinalPoint(data, years_grid[i + 1]), DrawSize(data, n_simulations)) :
          extracted_starting_points' = pts
    /\ n_years' = years_grid[i + 1]
    /\ advisories' = Append(advisories, Advisory(data, n_simulations))
    /\ returns_list' = <<>>
    /\ pc' = "trials"
    /\ UNCHANGED <<data, years_grid, n_simulations, portfolio_composition, i,
                   summary_results, runs, result, call, starting_point, outcome,
                   summary>>

\* the draw raises ValueError: more indices asked for than the range holds
DrawRaises ==
    /\ call = "simulate_multiple_durations"
    /\ pc = "loop"
    /\ i < Len(years_grid)
    /\ Draws(MaxFinalPoint(data, years_grid[i + 1]), DrawSize(data, n_simulations)) = {}
    /\ n_years' = years_grid[i + 1]
    /\ advisories' = Append(advisories, Advisory(data, n_simulations))
    /\ result' = RaisedIn("ValueError", "draw")
    /\ pc' = "raised"
    /\ UNCHANGED <<data, years_grid, n_simulations, portfolio_composition, i,
                   extracted_starting_points, returns_list, summary_results, runs,
                   call, starting_point, outcome, summary>>

\* one iteration of the loop over the starting points whose trial returns
TrialReturns ==
    /\ pc = "trials"
    /\ Len(returns_list) < Len(extracted_starting_points)
    /\ LET t == Trial(data, n_years, extracted_starting_points[Len(returns_list) + 1],
                      portfolio_composition)
       IN  /\ t.raised = "None"
           /\ returns_list' = Append(returns_list, t.value)
    /\ UNCHANGED <<data, years_grid, n_simulations, portfolio_composition, pc, i,
                   n_years, extracted_starting_points, summary_results, advisories,
                   runs, result, call, starting_point, outcome, summary>>

\* mutant: a trial that raises is skipped and the loop goes on
TrialRaises_Skipped ==
    /\ pc = "trials"
    /\ Len(returns_list) < Len(extracted_starting_points)
    /\ Trial(data, n_years, extracted_starting_points[Len(returns_list) + 1],
             portfolio_composition).raised # "None"
    /\ extracted_starting_points' =
          RemoveAt(extracted_starting_points, Len(returns_list) + 1)
    /\ UNCHANGED <<data, years_grid, n_simulations, portfolio_composition, pc, i,
                   n_years, returns_list, summary_results, advisories, runs,
                   result, call, starting_point, outcome, summary>>

\* one iteration whose trial raises: the exception leaves both functions
TrialRaises ==
    /\ pc = "trials"
    /\ Len(returns_list) < Len(extracted_starting_points)
    /\ LET t == Trial(data, n_years, extracted_starting_points[Len(returns_list) + 1],
                      portfolio_composition)
       IN  /\ t.raised # "None"
           /\ result' = RaisedIn(t.raised, "trial")
    /\ pc' = "raised"
    /\ UNCHANGED <<data, years_grid, n_simulations, portfolio_composition, i, n_years,
                   extracted_starting_points, returns_list, summary_results,
                   advisories, runs, call, starting_point, outcome, summary>>

\* simulate_multiple_investments returns returns_list
ReturnList ==
    /\ pc = "trials"
    /\ Len(returns_list) = Len(extracted_starting_points)
    /\ pc' = "summarize"
    /\ UNCHANGED <<data, years_grid, n_simulations, portfolio_composition, i, n_years,
                   extracted_starting_points, returns_list, summary_results,
                   advisories, runs, result, call, starting_point, outcome, summary>>

\* summary_results.append(compute_summary_stats(returns_list)), next duration
Summarize ==
    /\ pc = "summarize"
    /\ LET st == compute_summary_stats(returns_list)
       IN  /\ st.raised = "None"
           /\ summary_results' = AppendRow(summary_results, st.row)
    /\ runs' = Append(runs, [n_years |-> n_years,
                             starting_points |-> extracted_starting_points,
                             returns |-> returns_list])
    /\ i' = i + 1
    /\ pc' = "loop"
    /\ UNCHANGED <<data, years_grid, n_simulations, portfolio_composition, n_years,
                   extracted_starting_points, returns_list, advisories, result, call,
                   starting_point, outcome, summary>>

\* compute_summary_stats raises: the exception leaves simulate_multiple_durations
SummarizeRaises ==
    /\ pc = "summarize"
    /\ LET st == compute_summary_stats(returns_list)
       IN  /\ st.raised # "None"
           /\ result' = RaisedIn(st.raised, "stats")
    /\ pc' = "raised"
    /\ UNCHANGED <<data, years_grid, n_simulations, portfolio_composition, i, n_years,
                   extracted_starting_points, returns_list, summary_results,
                   advisories, runs, call, starting_point, outcome, summary>>

\* the loop is over: return np.array(summary_results)
ReturnArray ==
    /\ call = "simulate_multiple_durations"
    /\ pc = "loop"
    /\ i = Len(years_grid)
    /\ result' = [raised |-> "None", where |-> "", array |-> NpArray(summary_results)]
    /\ pc' = "returned"
    /\ UNCHANGED <<data, years_grid, n_simulations, portfolio_composition, i, n_years,
                   extracted_starting_points, returns_list, summary_results,
                   advisories, runs, call, starting_point, outcome, summary>>

Next ==
    \/ CallSingle
    \/ CallPortfolio
    \/ CallStats
    \/ Replicate
    \/ DrawRaises
    \/ TrialReturns
    \/ TrialRaises
    \/ ReturnList
    \/ Summarize
    \/ SummarizeRaises
    \/ ReturnArray

Spec == Init /\ [][Next]_vars

----------------------------------------------------------------------------
(* Properties *)

Sweep == call = "simulate_multiple_durations"

Rows == result.array.rows

\* the replication of grid entry k, as the run recorded it
RunOfEntry(k) ==
    /\ runs[k].n_years = years_grid[k]
    /\ Len(runs[k].returns) = Len(runs[k].starting_points)
    /\ \A j \in 1..Len(runs[k].returns) :
          runs[k].returns[j] =
              Trial(data, years_grid[k], runs[k].starting_points[j],
                    portfolio_composition).value

\* row k of the array is the summary of the replication of grid entry k
RowsInGridOrder ==
    /\ Len(Rows) = Len(years_grid)
    /\ Len(runs) = Len(years_grid)
    /\ \A k \in 1..Len(years_grid) :
          /\ RunOfEntry(k)
          /\ Len(Rows[k]) = 5
          /\ Rows[k] = compute_summary_stats(runs[k].returns).row

\* C1 as stated: whenever no trial fails, simulate_multiple_durations returns
\* an array of len(years_grid) rows and 5 columns, row i the summary of the
\* replication of years_grid[i], in grid order
C1_AsStated ==
    (Sweep /\ pc \in {"returned", "raised"}
           /\ ~(pc = "raised" /\ result.where = "trial"))
    => /\ pc = "returned"
       /\ result.array.shape[1] = Len(years_grid)
       /\ RowsInGridOrder

\* C1, amended: when it returns, simulate_multiple_durations returns an
\* array of len(years_grid) rows of 5 columns whose row i is the summary of
\* the replication of years_grid[i], in grid order, never reordered; and
\* when it raises instead, a trial failed, or n_simulations is 0, or
\* n_simulations exceeds the start-index range of a duration of the grid
C1_RowsInGridOrder ==
    /\ (Sweep /\ pc = "returned")
       => /\ result.array.shape[1] = Len(years_grid)
          /\ years_grid # <<>> => result.array.shape = <<Len(years_grid), 5>>
          /\ RowsInGridOrder
    /\ (Sweep /\ pc = "raised")
       => \/ result.where = "trial"
          \/ n_simulations = 0
          \/ \E k \in 1..Len(years_grid) :
                n_simulations > MaxFinalPoint(data, years_grid[k])

\* C1 witness: an unsorted grid of two durations, two trials each, whose two
\* rows differ, returned as a (2, 5) array
C1_Witness ==
    /\ Sweep
    /\ pc = "returned"
    /\ years_grid = <<<<1, 11>>, <<1, 12>>>>
    /\ n_simulations = 2
    /\ result.array.shape = <<2, 5>>
    /\ Rows[1] # Rows[2]

\* C2 as stated: a replication asked for more trials than half the
\* start-index range returns a list of exactly n_simulations returns; the
\* condition never becomes a failure
C2_AsStated ==
    (Sweep /\ n_years # NoYears
           /\ 2 * n_simulations > MaxFinalPoint(data, n_years)
           /\ (pc = "summarize" \/ (pc = "raised" /\ result.where = "draw")))
    => /\ pc = "summarize"
       /\ Len(returns_list) = n_simulations

\* C2, amended: the list simulate_multiple_investments returns has exactly
\* n_simulations entries, also when n_simulations exceeds half the
\* start-index range; the draw raises exactly when n_simulations exceeds
\* the whole range (and is not 0), and then no list is returned
C2_ListHasAllTrials ==
    /\ (Sweep /\ pc = "summarize") => Len(returns_list) = n_simulations
    /\ (Sweep /\ pc \in {"trials", "summarize"})
       => /\ Len(extracted_starting_points) = n_simulations
          /\ n_simulations = 0 \/ n_simulations <= MaxFinalPoint(data, n_years)
    /\ (Sweep /\ pc = "raised" /\ result.where = "draw")
       => /\ n_simulations > MaxFinalPoint(data, n_years)
          /\ n_simulations > 0

\* C2 witness: three trials over a range of three start indices, on a table
\* of five rows: the advisory was printed and the list of three was returned
C2_Witness ==
    /\ Sweep
    /\ pc = "summarize"
    /\ n_simulations = 3
    /\ MaxFinalPoint(data, n_years) = 3
    /\ advisories[Len(advisories)].printed
    /\ Len(returns_list) = 3

\* C3: the drawn start indices are pairwise distinct and lie in
\* [0, len(data) - floor(252 * n_years)), so that every trial's final index
\* is at most len(data) - 1, and no trial of the replicator raises IndexError
C3_StartsDistinctInRange ==
    /\ (Sweep /\ pc \in {"trials", "summarize"})
       => /\ \A a, b \in 1..Len(extracted_starting_points) :
                a # b => extracted_starting_points[a] # extracted_starting_points[b]
          /\ \A a \in 1..Len(extracted_starting_points) :
                /\ extracted_starting_points[a] >= 0
                /\ extracted_starting_points[a] < LenData(data) - Horizon(n_years)
                /\ extracted_starting_points[a] + Horizon(n_years) <= LenData(data) - 1
                /\ Trial(data, n_years, extracted_starting_points[a],
                         portfolio_composition).raised # "IndexError"
    /\ (Sweep /\ pc = "raised" /\ result.where = "trial")
       => result.raised # "IndexError"

\* C3 witness: three trials have run, one of them from the last start index
\* of the range
C3_Witness ==
    /\ Sweep
    /\ pc = "summarize"
    /\ Len(returns_list) = 3
    /\ \E a \in 1..3 :
          extracted_starting_points[a] + Horizon(n_years) = LenData(data) - 1

DirectPortfolio == call = "simulate_portfolio_returns" /\ pc # "called"

DirectSingle == call = "simulate_single_investment" /\ pc # "called"

Weights == portfolio_composition.items

UnknownKey == \E k \in 1..Len(Weights) : Weights[k][1] \notin Columns(data)

\* C4: with weights whose sum is not 100, simulate_portfolio_returns raises
\* ValueError before any price is read, whatever the other arguments are
C4_SumCheckedFirst ==
    (DirectPortfolio /\ SumValues(Weights) # 100)
    => /\ pc = "raised"
       /\ outcome.raised = "ValueError"
       /\ outcome.reads = <<>>
       /\ outcome.purchases = <<>>

\* C4 witness: weights summing to 99 with a ticker that is no column, and a
\* start index past the end of the table
C4_Witness ==
    /\ DirectPortfolio
    /\ SumValues(Weights) = 99
    /\ UnknownKey
    /\ starting_point = LenData(data)
    /\ outcome.raised = "ValueError"

\* C5: with weights that sum to 100 and a key that is no column,
\* simulate_portfolio_returns raises KeyError, not ValueError, before any
\* price is read or any share bought, for the present instruments too
C5_MissingTickerBeforeWork ==
    (DirectPortfolio /\ SumValues(Weights) = 100 /\ UnknownKey)
    => /\ pc = "raised"
       /\ outcome.raised = "KeyError"
       /\ outcome.raised # "ValueError"
       /\ outcome.reads = <<>>
       /\ outcome.purchases = <<>>

\* C5 witness: the present instrument comes first in the weights, the call
\* is in range, and it raised KeyError
C5_Witness ==
    /\ DirectPortfolio
    /\ Weights = <<<<"AAPL", 60>>, <<"GOOGL", 40>>>>
    /\ starting_point = 0
    /\ n_years = <<1, 12>>
    /\ outcome.raised = "KeyError"

DirectStats == call = "compute_summary_stats" /\ pc # "called"

InUnitInterval(x) == RatLeq(Num(0), x) /\ RatLeq(x, Num(1))

\* C6: for a non-empty list, compute_summary_stats yields
\* min <= median <= max and both probabilities in [0, 1]; the probabilities
\* of every row that simulate_multiple_durations collects and returns are in
\* [0, 1] as well
C6_SummaryBounds ==
    /\ (DirectStats /\ returns_list # <<>>)
       => /\ pc = "returned"
          /\ RatLeq(summary.row[1], summary.row[3])
          /\ RatLeq(summary.row[3], summary.row[2])
          /\ InUnitInterval(summary.row[4])
          /\ InUnitInterval(summary.row[5])
    /\ Sweep
       => /\ \A k \in 1..Len(summary_results) :
                InUnitInterval(summary_results[k][4])
                /\ InUnitInterval(summary_results[k][5])
          /\ \A k \in 1..Len(Rows) :
                InUnitInterval(Rows[k][4]) /\ InUnitInterval(Rows[k][5])

\* C6 witness: a list of two returns whose median lies strictly between
\* them, one of them above both thresholds
C6_Witness ==
    /\ DirectStats
    /\ returns_list = <<Num(3), Num(0)>>
    /\ summary.row = <<Num(0), Num(3), Rat(3, 2), Rat(1, 2), Rat(1, 2)>>

\* how many entries of l are strictly above the integer t
RECURSIVE CountAbove(_, _)
CountAbove(l, t) ==
    IF l = <<>> THEN 0
    ELSE (IF Head(l)[1] > t * Head(l)[2] THEN 1 ELSE 0) + CountAbove(Tail(l), t)

\* C7: p_nonneg is the number of returns strictly above 0 over the number of
\* returns, p_above_threshold the number strictly above 2 over the number of
\* returns: a return of exactly 0, or of exactly 2, is not counted
C7_StrictThresholds ==
    (DirectStats /\ returns_list # <<>>)
    => /\ summary.row[4][1] * Len(returns_list)
              = CountAbove(returns_list, 0) * summary.row[4][2]
       /\ summary.row[5][1] * Len(returns_list)
              = CountAbove(returns_list, 2) * summary.row[5][2]
       /\ summary.row[4][2] > 0
       /\ summary.row[5][2] > 0

\* C7 witness: the returns 0, 2 and 3: two thirds above 0, one third above 2
C7_Witness ==
    /\ DirectStats
    /\ returns_list = <<Num(0), Num(2), Num(3)>>
    /\ summary.row[4] = Rat(2, 3)
    /\ summary.row[5] = Rat(1, 3)

\* C8: compute_summary_stats of the empty list raises and returns no tuple;
\* simulate_multiple_durations with n_simulations = 0 and a non-empty grid
\* raises at the first grid entry and collects no row
C8_EmptyListRaises ==
    /\ (DirectStats /\ returns_list = <<>>)
       => /\ pc = "raised"
          /\ summary.raised = "ValueError"
          /\ summary.row = <<>>
    /\ (Sweep /\ n_simulations = 0 /\ years_grid # <<>>)
       => /\ pc # "returned"
          /\ i = 0
          /\ summary_results = <<>>
          /\ pc = "raised" => result.where = "stats" /\ result.raised = "ValueError"

\* C8 witness: a sweep of two durations with no trial has raised in the
\* summary of the first one
C8_Witness ==
    /\ Sweep
    /\ n_simulations = 0
    /\ Len(years_grid) = 2
    /\ pc = "raised"
    /\ result.where = "stats"
    /\ i = 0

OutOfRangeCall ==
    /\ starting_point >= 0
    /\ starting_point + Horizon(n_years) >= LenData(data)

ReadsInBounds ==
    \A k \in 1..Len(outcome.reads) :
        outcome.reads[k][1] >= 0 /\ outcome.reads[k][1] < LenData(data)

\* C9 as stated: both simulators raise the out-of-range error whenever
\* start_index >= 0 and start_index + floor(252 * n_years) >= len(data)
C9_AsStated ==
    ((DirectSingle \/ DirectPortfolio) /\ OutOfRangeCall)
    => /\ pc = "raised"
       /\ outcome.raised = "IndexError"

\* C9, amended: simulate_single_investment, and simulate_portfolio_returns
\* called with weights that pass both validations, raise IndexError and
\* return no value whenever start_index >= 0 and the final index is no row
\* of the table; no row past the end is read, so the index is not clamped;
\* with weights that fail a validation the portfolio simulator raises that
\* validation's error instead
C9_OutOfRangeRaises ==
    /\ ((DirectSingle
         \/ (DirectPortfolio /\ SumValues(Weights) = 100 /\ ~UnknownKey))
        /\ OutOfRangeCall)
       => /\ pc = "raised"
          /\ outcome.raised = "IndexError"
          /\ IsNaN(outcome.value)
          /\ ReadsInBounds
    /\ (DirectPortfolio /\ OutOfRangeCall
          /\ (SumValues(Weights) # 100 \/ UnknownKey))
       => /\ pc = "raised"
          /\ outcome.raised \in {"ValueError", "KeyError"}

\* C9 witness: the 60/40 portfolio from the last row of the table: the start
\* price was read, then the call raised IndexError
C9_Witness ==
    /\ DirectPortfolio
    /\ Weights = <<<<"AAPL", 60>>, <<"MSFT", 40>>>>
    /\ starting_point = LenData(data) - 1
    /\ n_years = <<1, 12>>
    /\ outcome.raised = "IndexError"
    /\ outcome.reads # <<>>

\* C10: in both simulators the net return is 74/100 of the gross return
\* when the gross return is strictly positive, and the gross return itself
\* when it is zero or negative: net < gross and net > 0 in the first case,
\* net = gross in the second
C10_TaxOnGainsOnly ==
    ((DirectSingle \/ DirectPortfolio) /\ pc = "returned"
        /\ ~IsNaN(outcome.gross_return))
    => LET g == outcome.gross_return
           n == outcome.net_return
       IN  /\ ~IsNaN(n)
           /\ g[1] > 0 => /\ 100 * n[1] * g[2] = 74 * g[1] * n[2]
                          /\ n[1] > 0
                          /\ n[1] * g[2] < g[1] * n[2]
           /\ g[1] <= 0 => n = g

\* C10 witness: a portfolio call that returned with a loss, left untaxed
C10_Witness ==
    /\ DirectPortfolio
    /\ pc = "returned"
    /\ outcome.gross_return[1] < 0
    /\ outcome.gross_return[2] > 0
    /\ outcome.net_return = outcome.gross_return

\* the start index is a row and so is the final index
ValidStart ==
    /\ starting_point >= 0
    /\ starting_point + Horizon(n_years) < LenData(data)

ValidWeights == SumValues(Weights) = 100 /\ ~UnknownKey

\* the price of the ticker never falls between the start and the final index
NonDecreasing(ticker) ==
    \A r \in starting_point..(starting_point + Horizon(n_years) - 1) :
        data.prices[ticker][r + 1] <= data.prices[ticker][r + 2]

\* C11: when the price of every weighted instrument is non-decreasing over
\* the simulated window, simulate_portfolio_returns called with a valid start
\* index and n_years > 0 returns a non-negative annualized net return: the
\* final value is at least the capital, and gross, net and annualized return
\* are all >= 0
C11_RisingNonNegative ==
    (DirectPortfolio /\ ValidWeights /\ ValidStart
        /\ n_years[1] > 0 /\ n_years[2] > 0
        /\ \A k \in 1..Len(Weights) : NonDecreasing(Weights[k][1]))
    => /\ pc = "returned"
       /\ RatLeq(outcome.capital, outcome.final_value)
       /\ RatLeq(Num(0), outcome.gross_return)
       /\ RatLeq(Num(0), outcome.net_return)
       /\ RatLeq(Num(0), outcome.value)

\* the number of valid start indices of grid entry k
RangeOfEntry(k) == LenData(data) - Horizon(years_grid[k])

\* C12: the replication of every grid entry prints the advisory exactly when
\* n_simulations exceeds half the range of valid start indices,
\* n_simulations > (len(data) - floor(252 * n_years)) / 2, and the number it
\* recommends is that range divided by 2
C12_AdvisoryAtHalfRange ==
    Sweep
    => \A k \in 1..Len(advisories) :
          /\ advisories[k].printed <=> 2 * n_simulations > RangeOfEntry(k)
          /\ advisories[k].printed => advisories[k].suggested = RangeOfEntry(k) \div 2

\* floor(252 * n_years / 21)
FloorPeriods == (TradingDaysPerYear * n_years[1]) \div (21 * n_years[2])

\* the number of offsets starting_point + 21 * k, k >= 0, below the final
\* index, the initial purchase counted also when the horizon is 0
OffsetsBelowFinal ==
    IF Horizon(n_years) = 0 THEN 1 ELSE (Horizon(n_years) + 20) \div 21

\* C13 as stated: simulate_single_investment makes exactly
\* floor(252 * n_years / 21) purchases of 100 units, also when
\* floor(252 * n_years) is not a multiple of 21, and the capital is 100 times
\* that number
C13_AsStated ==
    (DirectSingle /\ ValidStart /\ n_years[1] > 0)
    => /\ pc = "returned"
       /\ Len(outcome.purchases) = FloorPeriods
       /\ outcome.capital = Num(100 * FloorPeriods)

\* C13, amended: simulate_single_investment buys 100 units at
\* starting_point and at every offset starting_point + 21 * k that is
\* strictly below the final index, nowhere else and never at the final index
\* of a horizon of at least one row: ceil(floor(252 * n_years) / 21)
\* purchases (one when the horizon is 0), which is floor(252 * n_years / 21)
\* when the horizon is a positive multiple of 21; the capital is 100 times
\* the number of purchases
C13_PurchaseEvents ==
    (DirectSingle /\ ValidStart /\ n_years[1] > 0)
    => /\ pc = "returned"
       /\ Len(outcome.purchases) = OffsetsBelowFinal
       /\ \A k \in 1..Len(outcome.purchases) :
             /\ outcome.purchases[k]
                  = <<starting_point + 21 * (k - 1), data.columns[1], Num(100)>>
             /\ Horizon(n_years) >= 1
                  => outcome.purchases[k][1] < starting_point + Horizon(n_years)
       /\ \A k \in 0..Horizon(n_years) :
             (21 * k < Horizon(n_years))
             => \E j \in 1..Len(outcome.purchases) :
                   outcome.purchases[j][1] = starting_point + 21 * k
       /\ outcome.capital = Num(100 * OffsetsBelowFinal)
       /\ (Horizon(n_years) >= 1 /\ Horizon(n_years) % 21 = 0)
             => Len(outcome.purchases) = FloorPeriods

\* C13 witness: a horizon of 22 rows, not a multiple of 21: purchases at the
\* start index and 21 rows later, one more than floor(252 * n_years / 21)
C13_Witness ==
    /\ DirectSingle
    /\ pc = "returned"
    /\ n_years = <<1, 11>>
    /\ starting_point = 1
    /\ Len(outcome.purchases) = 2
    /\ outcome.purchases[2][1] = 22
    /\ outcome.capital = Num(200)
    /\ FloorPeriods = 1

\* the number of purchase events of the portfolio simulator: the offsets
\* starting_point + 21 * k, k >= 0, strictly below the final index
PortfolioEvents == (Horizon(n_years) + 20) \div 21

\* what the purchases made at one row add up to
RECURSIVE SumAt(_, _)
SumAt(purchases, row) ==
    IF purchases = <<>> THEN Num(0)
    ELSE RatAdd(IF Head(purchases)[1] = row THEN Head(purchases)[3] ELSE Num(0),
                SumAt(Tail(purchases), row))

TrialOf(j) ==
    Trial(data, n_years, extracted_starting_points[j], portfolio_composition)

\* C15: a trial that fails ends the whole call.  The replication hands no
\* list to its caller: a list that is returned has one entry for every drawn
\* start index, each the value of a trial that returned, none skipped and
\* none replaced.  The sweep raises the trial's exception and returns no
\* matrix, whatever rows it had collected; a sweep that returns a matrix ran
\* no failing trial
C15_FailureAborts ==
    /\ (Sweep /\ pc = "raised" /\ result.where = "trial")
       => /\ result.raised = TrialOf(Len(returns_list) + 1).raised
          /\ result.raised # "None"
          /\ \A j \in 1..Len(returns_list) : TrialOf(j).raised = "None"
    /\ (Sweep /\ pc = "raised")
       => /\ result.raised # "None"
          /\ result.array = NpArray(<<>>)
    /\ (Sweep /\ pc \in {"trials", "summarize"})
       => /\ Len(extracted_starting_points) = n_simulations
          /\ \A j \in 1..Len(returns_list) :
                /\ TrialOf(j).raised = "None"
                /\ returns_list[j] = TrialOf(j).value
    /\ (Sweep /\ pc = "summarize")
       => /\ Len(returns_list) = n_simulations
          /\ \A j \in 1..n_simulations : TrialOf(j).raised = "None"
    /\ (Sweep /\ pc = "returned")
       => /\ result.raised = "None"
          /\ \A k \in 1..Len(runs) : \A j \in 1..Len(runs[k].starting_points) :
                Trial(data, runs[k].n_years, runs[k].starting_points[j],
                      portfolio_composition).raised = "None"

\* C15 witness: a sweep of two durations and three trials each, with a
\* ticker that is no column: the first trial raised KeyError, no list was
\* returned and the sweep raised KeyError
C15_Witness ==
    /\ Sweep
    /\ pc = "raised"
    /\ result.where = "trial"
    /\ result.raised = "KeyError"
    /\ n_simulations = 3
    /\ Len(years_grid) = 2
    /\ Len(extracted_starting_points) = 3
    /\ returns_list = <<>>
    /\ result.array.rows = <<>>

\* the weight map that puts everything on the first column of the table
OneInstrument == Weights = <<<<data.columns[1], 100>>>>

\* what simulate_single_investment does for the arguments of the running call
SingleOutcome == simulate_single_investment(data, n_years, starting_point)

\* C16: for the one-instrument portfolio {c: 100}, c the first column, a
\* valid start index and floor(252 * n_years) >= 1,
\* simulate_portfolio_returns returns what simulate_single_investment
\* returns: the same purchases at the same offsets, the same prices read, the
\* same total and average capital, final value, gross, net and annualized
\* return.  With floor(252 * n_years) = 0 the single-asset simulator makes
\* its initial purchase and the portfolio simulator makes none
C16_OneInstrumentIsSingle ==
    /\ (DirectPortfolio /\ OneInstrument /\ ValidStart /\ Horizon(n_years) >= 1)
       => /\ pc = "returned"
          /\ SingleOutcome.raised = "None"
          /\ outcome.purchases = SingleOutcome.purchases
          /\ outcome.reads = SingleOutcome.reads
          /\ outcome.capital = SingleOutcome.capital
          /\ outcome.average_capital = SingleOutcome.average_capital
          /\ outcome.final_value = SingleOutcome.final_value
          /\ outcome.gross_return = SingleOutcome.gross_return
          /\ outcome.net_return = SingleOutcome.net_return
          /\ outcome.value = SingleOutcome.value
          /\ ~IsNaN(outcome.value)
    /\ (DirectPortfolio /\ OneInstrument /\ ValidStart /\ Horizon(n_years) = 0)
       => /\ outcome.purchases = <<>>
          /\ Len(SingleOutcome.purchases) = 1
          /\ outcome.value # SingleOutcome.value

\* C16 witness: the one-instrument portfolio over 42 rows returned with a
\* taxed gain after two purchases, the value the single-asset simulator gives
C16_Witness ==
    /\ DirectPortfolio
    /\ pc = "returned"
    /\ OneInstrument
    /\ n_years = <<1, 6>>
    /\ Len(outcome.purchases) = 2
    /\ outcome.gross_return[1] > 0
    /\ outcome.net_return # outcome.gross_return
    /\ outcome.value = SingleOutcome.value

\* the gross return with the closed form total_capital / 2 as its denominator
ClosedFormGross ==
    RatMul(RatDiv(RatSub(outcome.final_value, outcome.capital),
                  RatDiv(outcome.capital, Num(2))),
           Num(100))

\* C17: when simulate_portfolio_returns returns, the average capital it
\* accumulated, allocation / 2 per instrument and purchase, is exactly half
\* of the total capital, and the gross return is the one the closed form
\* total_capital / 2 gives
C17_AverageIsHalfCapital ==
    (DirectPortfolio /\ pc = "returned")
    => /\ ValidWeights
       /\ ~IsNaN(outcome.average_capital)
       /\ 2 * outcome.average_capital[1] * outcome.capital[2]
             = outcome.capital[1] * outcome.average_capital[2]
       /\ outcome.average_capital = Num(50 * PortfolioEvents)
       /\ outcome.gross_return = ClosedFormGross

\* C17 witness: the 60/40 portfolio over 42 rows: four purchases, 30 + 30 +
\* 20 + 20 = 100 accumulated, half of the capital of 200
C17_Witness ==
    /\ DirectPortfolio
    /\ pc = "returned"
    /\ Len(Weights) = 2
    /\ Len(outcome.purchases) = 4
    /\ outcome.average_capital = Num(100)
    /\ outcome.capital = Num(200)
    /\ ~IsNaN(outcome.gross_return)

\* the base of the power: 1 + net_return / 100
AnnualizationBase == RatAdd(Num(1), RatDiv(outcome.net_return, Num(100)))

\* a simulator call on a valid start index, with valid weights if it has any
ValidCall ==
    /\ DirectSingle \/ (DirectPortfolio /\ ValidWeights)
    /\ ValidStart
    /\ n_years[1] > 0

====
